---- MODULE Spec2Model ----
(***************************************************************************)
(* Model of state_splitter.py: moving the resources of selected modules    *)
(* from a source Terraform state to destination states.                    *)
(*                                                                         *)
(* Python strings are sequences of tokens ("module", ".", "a", ...), so    *)
(* that str.startswith and str.replace work on characters and not on       *)
(* module segments.  Python dicts that describe resources are objects of   *)
(* a heap; a state's 'resources' list is a sequence of references into     *)
(* the heap, so that the in-place update of resource['module'] is seen     *)
(* through every list that holds the same object.                          *)
(***************************************************************************)
EXTENDS Integers, Sequences, FiniteSets, TLC

(* ------------------------------------------------------------------ *)
(* Bounds of the model                                                 *)
(* ------------------------------------------------------------------ *)

\* longest 'resources' list of the source document at the start of a run
MaxSrcLen == 2
\* most split mappings in one run
MaxMappings == 2
\* most writes of an external actor to the source store during one run
MaxExternal == 1
\* longest list handed to one function call of the function-level specification
MaxFnLen == 2

(* ------------------------------------------------------------------ *)
(* Strings                                                             *)
(* ------------------------------------------------------------------ *)

Dot == <<".">>
Str(tok) == <<tok>>
ModulePath(name) == <<"module">> \o Dot \o name

mRoot == <<>>
mA == ModulePath(Str("a"))
mA2 == ModulePath(<<"a", "2">>)
mAB == mA \o Dot \o ModulePath(Str("b"))
mBA == ModulePath(Str("b")) \o Dot \o mA
mN == ModulePath(Str("n")) \o Dot \o mA

\* str.startswith
StartsWith(s, p) == Len(p) <= Len(s) /\ SubSeq(s, 1, Len(p)) = p

\* str.find: index of the first occurrence of old in s, 0 when there is none
FindFirst(s, old) ==
    LET hits == {i \in 1..(Len(s) - Len(old) + 1) : SubSeq(s, i, i + Len(old) - 1) = old}
    IN IF hits = {} THEN 0 ELSE CHOOSE i \in hits : \A j \in hits : i <= j

\* str.replace(old, new, 1), for a non-empty old
ReplaceFirst(s, old, new) ==
    LET i == FindFirst(s, old)
    IN IF i = 0 THEN s
       ELSE SubSeq(s, 1, i - 1) \o new \o SubSeq(s, i + Len(old), Len(s))

Range(s) == {s[k] : k \in 1..Len(s)}

(* ------------------------------------------------------------------ *)
(* Optional prefixes: None, or a string (Python truthiness at line 172)*)
(* ------------------------------------------------------------------ *)

None == [present |-> FALSE, val |-> <<>>]
Some(s) == [present |-> TRUE, val |-> s]
Truthy(p) == p.present /\ p.val # <<>>

(* ------------------------------------------------------------------ *)
(* Resource records and documents                                      *)
(* ------------------------------------------------------------------ *)

Rec(module, name, payload) ==
    [module |-> module, mode |-> Str("managed"), type |-> Str("t"),
     name |-> Str(name), payload |-> payload]

\* a document that does not exist (an empty dict / a store without state)
Absent == [version |-> 0, terraform_version |-> "", serial |-> 0,
           lineage |-> "", resources |-> <<>>]
IsAbsent(doc) == doc.version = 0

identifier_without_module(resource) ==
    resource.mode \o Dot \o resource.type \o Dot \o resource.name

\* lines 130-137
get_resource_identifier(resource) ==
    resource.module \o Dot \o resource.mode \o Dot \o resource.type
        \o Dot \o resource.name

\* the identifiers of the objects a list of references holds
Identifiers(heap, refs) == {get_resource_identifier(heap[refs[k]]) : k \in 1..Len(refs)}

\* json.dumps of a state: the references are replaced by the objects' values
Serialize(heap, state) ==
    [state EXCEPT !.resources = [k \in 1..Len(state.resources) |-> heap[state.resources[k]]]]

(* ------------------------------------------------------------------ *)
(* find_resources_by_module_path, find_module_resources                *)
(* ------------------------------------------------------------------ *)

module_matches(resource_module, module_path, exclude_submodules) ==
    IF exclude_submodules
    THEN resource_module = module_path
    ELSE StartsWith(resource_module, module_path)

find_resources_by_module_path(heap, resources, module_path, exclude_submodules) ==
    SelectSeq(resources,
              LAMBDA o : module_matches(heap[o].module, module_path, exclude_submodules))

\* lines 116-128: the resources whose module starts with "module." + module_name
find_module_resources(heap, resources, module_name) ==
    SelectSeq(resources, LAMBDA o : StartsWith(heap[o].module, ModulePath(module_name)))

(* ------------------------------------------------------------------ *)
(* remove_resources_from_state                                         *)
(* ------------------------------------------------------------------ *)

keeps_no_resource(resource_id, resource_ids) == FALSE

\* line 148: the test of the filter
keeps_resource(resource_id, resource_ids) == resource_id \notin Range(resource_ids)

remove_resources_from_state(heap, resources, resource_ids) ==
    SelectSeq(resources,
              LAMBDA o : keeps_resource(get_resource_identifier(heap[o]), resource_ids))

(* ------------------------------------------------------------------ *)
(* add_resources_to_state                                              *)
(* ------------------------------------------------------------------ *)

rewrite_unanchored(module, source_prefix, target_prefix) ==
    IF Truthy(source_prefix) /\ Truthy(target_prefix)
    THEN ReplaceFirst(module, source_prefix.val, target_prefix.val)
    ELSE module

\* lines 172-173: the module of a resource after the optional prefix change
rewrite_module(module, source_prefix, target_prefix) ==
    IF Truthy(source_prefix) /\ Truthy(target_prefix)
       /\ StartsWith(module, source_prefix.val)
    THEN ReplaceFirst(module, source_prefix.val, target_prefix.val)
    ELSE module

register_forgotten(existing_resources, resource_id) == existing_resources

\* line 180
register(existing_resources, resource_id) == existing_resources \cup {resource_id}

\* lines 170-182: the loop over resources_to_add, from position k on.  The
\* resource object is updated in place in the heap before its identifier is
\* computed.
RECURSIVE add_loop(_, _, _, _, _, _, _, _)
add_loop(heap, resources, existing_resources, skipped, resources_to_add, k, source_prefix, target_prefix) ==
    IF k > Len(resources_to_add)
    THEN [heap |-> heap, resources |-> resources, skipped |-> skipped]
    ELSE LET o == resources_to_add[k]
             heap2 == [heap EXCEPT ![o].module =
                          rewrite_module(@, source_prefix, target_prefix)]
             resource_id == get_resource_identifier(heap2[o])
         IN IF resource_id \notin existing_resources
            THEN add_loop(heap2, Append(resources, o),
                          register(existing_resources, resource_id), skipped,
                          resources_to_add, k + 1, source_prefix, target_prefix)
            ELSE add_loop(heap2, resources, existing_resources,
                          Append(skipped, resource_id),
                          resources_to_add, k + 1, source_prefix, target_prefix)

\* the document add_resources_to_state builds when it is handed no state
DefaultState == [version |-> 4, terraform_version |-> "1.0.0", serial |-> 0,
                 lineage |-> "", resources |-> <<>>]

\* lines 154-184.  The result holds the heap after the in-place updates, the
\* state returned and the identifiers reported as duplicates.
add_resources_to_state(heap, state, resources_to_add, source_prefix, target_prefix) ==
    LET st == IF IsAbsent(state) THEN DefaultState ELSE state
        r == add_loop(heap, st.resources, Identifiers(heap, st.resources), <<>>,
                      resources_to_add, 1, source_prefix, target_prefix)
    IN [heap |-> r.heap, state |-> [st EXCEPT !.resources = r.resources],
        skipped |-> r.skipped]

(* ------------------------------------------------------------------ *)
(* identify_modules: the count shown for a module path                 *)
(* ------------------------------------------------------------------ *)

RECURSIVE SumOver(_, _)
SumOver(S, f) ==
    IF S = {} THEN 0
    ELSE LET x == CHOOSE y \in S : TRUE IN f[x] + SumOver(S \ {x}, f)

\* lines 197-203: the module paths the index knows
all_module_paths(resources) ==
    {resources[k].module : k \in {j \in 1..Len(resources) :
        resources[j].module # <<>> /\ StartsWith(resources[j].module, <<"module", ".">>)}}

\* len(module_resources[path]), lines 203 and 222
direct_count(resources, module_path) ==
    Cardinality({k \in 1..Len(resources) : resources[k].module = module_path})

\* lines 219-237: the count stored for module_path
identify_count(resources, module_path) ==
    LET subs == {other \in all_module_paths(resources) :
                    other # module_path
                    /\ StartsWith(other, module_path \o <<".", "module", ".">>)}
    IN direct_count(resources, module_path)
       - SumOver(subs, [other \in subs |-> direct_count(resources, other)])

\* str.split('.')
RECURSIVE split_dots(_)
split_dots(s) ==
    LET i == FindFirst(s, Dot)
    IN IF i = 0 THEN <<s>>
       ELSE <<SubSeq(s, 1, i - 1)>> \o split_dots(SubSeq(s, i + 1, Len(s)))

\* ".".join
RECURSIVE join_dots(_)
join_dots(parts) ==
    IF parts = <<>> THEN <<>>
    ELSE IF Len(parts) = 1 THEN parts[1]
    ELSE parts[1] \o Dot \o join_dots(Tail(parts))

\* lines 206-216: "module.vpc.module.vpc" is displayed as "vpc.vpc"
display_name(module_path) ==
    LET parts == split_dots(module_path)
        at == SelectSeq([j \in 1..Len(parts) |-> j],
                        LAMBDA j : parts[j] = <<"module">> /\ j + 1 <= Len(parts))
    IN join_dots([k \in 1..Len(at) |-> parts[at[k] + 1]])

\* lines 186-239, the dict modules: one entry per display name, holding the
\* path it was built from and the adjusted count (a later path of the same
\* display name would replace the entry of an earlier one)
identify_modules(resources) ==
    LET paths == all_module_paths(resources)
    IN [name \in {display_name(path) : path \in paths} |->
           LET path == CHOOSE q \in paths : display_name(q) = name
           IN [full_path |-> path, count |-> identify_count(resources, path)]]

(* ------------------------------------------------------------------ *)
(* push_state: the serial written                                      *)
(* ------------------------------------------------------------------ *)

NoForce == [present |-> FALSE, val |-> 0]
Force(n) == [present |-> TRUE, val |-> n]

serial_kept(serial, force_serial) == serial

\* lines 93-96
next_serial(serial, force_serial) ==
    IF force_serial.present THEN force_serial.val ELSE serial + 1

(* ------------------------------------------------------------------ *)
(* The state stores (terraform state pull / push)                      *)
(* ------------------------------------------------------------------ *)

\* the store takes a document when it holds none, or when the lineage is its
\* own and the serial is greater than the one it holds
StoreAccepts(held, doc) ==
    IsAbsent(held) \/ (doc.lineage = held.lineage /\ doc.serial > held.serial)

(* ------------------------------------------------------------------ *)
(* State of one run of main                                            *)
(* ------------------------------------------------------------------ *)

VARIABLES
    pc,                      \* where main is
    dry_run,                 \* args.dry_run
    splits,                  \* the mappings in the order of the splits dict
    srcStore,                \* the document the source store holds
    dstStore,                \* the document each target directory's store holds
    heap,                    \* the resource objects in memory
    source_state,            \* main's source_state
    original_serial,         \* main's original_serial
    i,                       \* position of the loop over splits.items()
    module_resources,        \* main's module_resources (references)
    target_state,            \* main's target_state
    all_resources_to_remove, \* main's all_resources_to_remove
    events,                  \* history: every pull, initialization and push
    log,                     \* history: what the logger was handed
    ext,                     \* number of external writes so far
    extSrc,                  \* history: the source store under the external writes alone
    moved,                   \* history: the resources merged, with both identifiers
    fn                       \* state of the function-level specification

vars == <<pc, dry_run, splits, srcStore, dstStore, heap, source_state,
          original_serial, i, module_resources, target_state,
          all_resources_to_remove, events, log, ext, extSrc, moved, fn>>

Dirs == {"D1", "D2"}
SOURCE == "src"

SrcLineage == "L1"
DstLineage == "L2"

SrcRecU == {Rec(mA, "x", 1), Rec(mA, "y", 1), Rec(mA2, "x", 1),
            Rec(mAB, "x", 1), Rec(mN, "x", 2)}

\* sequences of at most n elements of S
SeqsUpTo(S, n) == UNION {[1..k -> S] : k \in 0..n}

Injective(s) == \A a, b \in 1..Len(s) : s[a] = s[b] => a = b

UniqueAddresses(resources) ==
    \A a, b \in 1..Len(resources) :
        get_resource_identifier(resources[a]) = get_resource_identifier(resources[b])
            => a = b

SrcResourceLists == {s \in SeqsUpTo(SrcRecU, MaxSrcLen) : UniqueAddresses(s)}

SourceDocs ==
    {[version |-> 4, terraform_version |-> "1.5.0", serial |-> 5,
      lineage |-> SrcLineage, resources |-> rs] : rs \in SrcResourceLists}

\* a target that has a state already, of a lineage of its own: it tracks the
\* address a prefix change to module.n.module.a leads to, and an address of
\* module.a, each with a payload of its own
ExistingTarget ==
    [version |-> 4, terraform_version |-> "1.4.0", serial |-> 3,
     lineage |-> DstLineage,
     resources |-> <<Rec(mN, "x", 3), Rec(mA, "x", 3)>>]

SelectablePaths == {mA, mA2}
TargetPrefixes == {None, Some(mN), Some(mA2)}

\* one entry of splits with its entry of module_prefixes (lines 400-408, 416-428):
\* the source prefix of a mapping is its module path, and module_prefixes has
\* an entry only when the target prefix differs from it
Mappings ==
    {m \in [module_path : SelectablePaths, target_dir : Dirs,
            target_prefix : TargetPrefixes] :
        m.target_prefix # Some(m.module_path)}

SplitLists ==
    {s \in SeqsUpTo(Mappings, MaxMappings) :
        \A a, b \in 1..Len(s) : s[a].module_path = s[b].module_path => a = b}

\* interactive_select_modules offers only the modules whose count is positive
\* (lines 277-280); a prefix change is asked for in interactive mode only
Selectable(doc, s) ==
    \/ \A k \in 1..Len(s) : s[k].target_prefix = None
    \/ \A k \in 1..Len(s) : identify_count(doc.resources, s[k].module_path) > 0

FnIdle == [op |-> "idle"]

Event(op, store, doc, ok) ==
    [op |-> op, store |-> store, serial |-> doc.serial, lineage |-> doc.lineage,
     resources |-> doc.resources, ok |-> ok]

Msg(level, text, arg) == [level |-> level, text |-> text, arg |-> arg]

Init ==
    /\ pc = "start"
    /\ dry_run \in BOOLEAN
    /\ srcStore \in SourceDocs
    /\ dstStore \in {[d \in Dirs |-> IF d = "D1" THEN t ELSE Absent] :
                        t \in {Absent, ExistingTarget}}
    /\ splits \in SplitLists
    /\ Selectable(srcStore, splits)
    /\ heap = <<>>
    /\ source_state = Absent
    /\ original_serial = 0
    /\ i = 0
    /\ module_resources = <<>>
    /\ target_state = Absent
    /\ all_resources_to_remove = <<>>
    /\ events = <<>>
    /\ log = <<>>
    /\ ext = 0
    /\ extSrc = srcStore
    /\ moved = <<>>
    /\ fn = FnIdle

(* ------------------------------------------------------------------ *)
(* main, one action per step between two store round-trips             *)
(* ------------------------------------------------------------------ *)

Running == pc \in {"select", "pull_target", "merge", "push_target"}

mapping == splits[i]

\* number of objects of the heap that belong to source_state: until the
\* eviction, source_state['resources'] holds them all
SourceObjects == Len(source_state.resources)

\* lines 410-412 (393-395 in interactive mode): no mapping, sys.exit(1)
NoMappings ==
    /\ pc = "start" /\ splits = <<>>
    /\ log' = Append(log, Msg("ERROR", "No split mappings provided", SOURCE))
    /\ pc' = "exit1"
    /\ UNCHANGED <<dry_run, splits, srcStore, dstStore, heap, source_state,
                   original_serial, i, module_resources, target_state,
                   all_resources_to_remove, events, ext, extSrc, moved, fn>>

\* lines 433-438, pull_state succeeds: json.loads builds fresh objects
PullSource ==
    /\ pc = "start" /\ splits # <<>>
    /\ heap' = srcStore.resources
    /\ source_state' = [srcStore EXCEPT !.resources = [k \in 1..Len(srcStore.resources) |-> k]]
    /\ original_serial' = srcStore.serial
    /\ all_resources_to_remove' = <<>>
    /\ i' = 1
    /\ events' = Append(events, Event("pull", SOURCE, srcStore, TRUE))
    /\ pc' = "select"
    /\ UNCHANGED <<dry_run, splits, srcStore, dstStore, module_resources,
                   target_state, log, ext, extSrc, moved, fn>>

\* lines 434, 78-80: pull_state raises, nothing catches it
PullSourceFails ==
    /\ pc = "start" /\ splits # <<>>
    /\ log' = Append(log, Msg("ERROR", "Failed to pull state", SOURCE))
    /\ events' = Append(events, Event("pull", SOURCE, Absent, FALSE))
    /\ pc' = "raised"
    /\ UNCHANGED <<dry_run, splits, srcStore, dstStore, heap, source_state,
                   original_serial, i, module_resources, target_state,
                   all_resources_to_remove, ext, extSrc, moved, fn>>

list_never_empty(found) == FALSE

\* line 448: not module_resources
no_module_resources(found) == found = <<>>

\* lines 441-446: the next mapping has resources in source_state
SelectMapping ==
    /\ pc = "select" /\ i <= Len(splits)
    /\ LET found == find_resources_by_module_path(heap, source_state.resources,
                                                  mapping.module_path, TRUE)
       IN /\ ~no_module_resources(found)
          /\ module_resources' = found
    /\ pc' = "pull_target"
    /\ UNCHANGED <<dry_run, splits, srcStore, dstStore, heap, source_state,
                   original_serial, i, target_state, all_resources_to_remove,
                   events, log, ext, extSrc, moved, fn>>

\* lines 448-450: no resource found, the mapping is skipped
SkipMapping ==
    /\ pc = "select" /\ i <= Len(splits)
    /\ LET found == find_resources_by_module_path(heap, source_state.resources,
                                                  mapping.module_path, TRUE)
       IN /\ no_module_resources(found)
          /\ module_resources' = found
    /\ log' = Append(log, Msg("WARNING", "No resources found for module", mapping.target_dir))
    /\ i' = i + 1
    /\ UNCHANGED <<pc, dry_run, splits, srcStore, dstStore, heap, source_state,
                   original_serial, target_state, all_resources_to_remove,
                   events, ext, extSrc, moved, fn>>

\* lines 453-454: the target's state is pulled; its objects are new ones
PullTarget ==
    /\ pc = "pull_target"
    /\ LET held == dstStore[mapping.target_dir]
           n == SourceObjects
       IN /\ ~IsAbsent(held)
          /\ heap' = SubSeq(heap, 1, n) \o held.resources
          /\ target_state' = [held EXCEPT !.resources =
                                 [k \in 1..Len(held.resources) |-> n + k]]
          /\ events' = Append(events, Event("pull", mapping.target_dir, held, TRUE))
    /\ pc' = "merge"
    /\ UNCHANGED <<dry_run, splits, srcStore, dstStore, source_state,
                   original_serial, i, module_resources,
                   all_resources_to_remove, log, ext, extSrc, moved, fn>>

initial_state_keeps_serial(source) ==
    [version |-> 4, terraform_version |-> source.terraform_version,
     serial |-> source.serial, lineage |-> source.lineage, resources |-> <<>>]

\* lines 457-463: the document main builds when the pull of the target fails
initial_target_state(source) ==
    [version |-> 4, terraform_version |-> source.terraform_version,
     serial |-> 0, lineage |-> source.lineage, resources |-> <<>>]

\* lines 455-463: the pull fails (always so for a store without state, whose
\* empty answer json.loads refuses) and an empty state is initialized
PullTargetFails ==
    /\ pc = "pull_target"
    /\ heap' = SubSeq(heap, 1, SourceObjects)
    /\ target_state' = initial_target_state(source_state)
    /\ events' = events \o <<Event("pull", mapping.target_dir, Absent, FALSE),
                             Event("init", mapping.target_dir,
                                   initial_target_state(source_state), TRUE)>>
    /\ log' = Append(log, Msg("ERROR", "Failed to pull state from target, initializing empty state",
                              mapping.target_dir))
    /\ pc' = "merge"
    /\ UNCHANGED <<dry_run, splits, srcStore, dstStore, source_state,
                   original_serial, i, module_resources,
                   all_resources_to_remove, ext, extSrc, moved, fn>>

reports_never(flag) == FALSE

\* line 465: the branch that only reports the move
reports_only(flag) == flag

\* lines 465-476: dry run, the move is only reported
DryRunReport ==
    /\ pc = "merge" /\ reports_only(dry_run)
    /\ log' = Append(log, Msg("INFO", "DRY RUN: Would move", mapping.target_dir))
    /\ i' = i + 1
    /\ pc' = "select"
    /\ UNCHANGED <<dry_run, splits, srcStore, dstStore, heap, source_state,
                   original_serial, module_resources, target_state,
                   all_resources_to_remove, events, ext, extSrc, moved, fn>>

\* lines 487-489: the prefixes of the mapping, None without a module_prefixes entry
source_prefix_of(m) == IF m.target_prefix = None THEN None ELSE Some(m.module_path)

\* lines 478-500: the identifiers to remove are computed, then the resources
\* are added to target_state
Merge ==
    /\ pc = "merge" /\ ~reports_only(dry_run)
    /\ LET resources_to_remove ==
               [k \in 1..Len(module_resources) |->
                   get_resource_identifier(heap[module_resources[k]])]
           r == add_resources_to_state(heap, target_state, module_resources,
                                       source_prefix_of(mapping), mapping.target_prefix)
       IN /\ heap' = r.heap
          /\ target_state' = r.state
          /\ all_resources_to_remove' = all_resources_to_remove \o resources_to_remove
          /\ log' = log \o [k \in 1..Len(r.skipped) |->
                               Msg("WARNING", "Skipping duplicate resource", r.skipped[k])]
          /\ moved' = moved \o
                [k \in 1..Len(module_resources) |->
                    [dir |-> mapping.target_dir,
                     old |-> resources_to_remove[k],
                     new |-> get_resource_identifier(r.heap[module_resources[k]]),
                     payload |-> heap[module_resources[k]].payload,
                     prefixed |-> mapping.target_prefix # None]]
    /\ pc' = "push_target"
    /\ UNCHANGED <<dry_run, splits, srcStore, dstStore, source_state,
                   original_serial, i, module_resources, events, ext, extSrc, fn>>

\* line 503, push_state succeeds
PushTarget ==
    /\ pc = "push_target"
    /\ LET state == [target_state EXCEPT !.serial = next_serial(@, NoForce)]
           doc == Serialize(heap, state)
       IN /\ StoreAccepts(dstStore[mapping.target_dir], doc)
          /\ target_state' = state
          /\ dstStore' = [dstStore EXCEPT ![mapping.target_dir] = doc]
          /\ events' = Append(events, Event("push", mapping.target_dir, doc, TRUE))
    /\ i' = i + 1
    /\ pc' = "select"
    /\ UNCHANGED <<dry_run, splits, srcStore, heap, source_state, original_serial,
                   module_resources, all_resources_to_remove, log, ext, extSrc, moved, fn>>

push_error_swallowed(at) == at

\* lines 110-112: push_state logs and raises again; no handler of main is
\* around a call of push_state, so the run ends wherever the push was made
after_push_error(at) == "raised"

\* line 503, lines 110-112: the push fails and push_state raises
PushTargetFails ==
    /\ pc = "push_target"
    /\ LET state == [target_state EXCEPT !.serial = next_serial(@, NoForce)]
       IN /\ target_state' = state
          /\ events' = Append(events, Event("push", mapping.target_dir,
                                            Serialize(heap, state), FALSE))
    /\ log' = Append(log, Msg("ERROR", "Failed to push state", mapping.target_dir))
    /\ pc' = after_push_error(pc)
    /\ UNCHANGED <<dry_run, splits, srcStore, dstStore, heap, source_state,
                   original_serial, i, module_resources,
                   all_resources_to_remove, ext, extSrc, moved, fn>>

\* lines 506-511: source_state after the removal, with the serial push_state gives it
evicted_source_state ==
    [source_state EXCEPT
        !.resources = remove_resources_from_state(heap, @, all_resources_to_remove),
        !.serial = next_serial(@, Force(original_serial + 1))]

\* lines 506-513: the resources are removed from source_state, which is pushed
EvictAndPushSource ==
    /\ pc = "select" /\ i > Len(splits)
    /\ ~dry_run /\ all_resources_to_remove # <<>>
    /\ LET doc == Serialize(heap, evicted_source_state)
       IN /\ StoreAccepts(srcStore, doc)
          /\ srcStore' = doc
          /\ events' = Append(events, Event("push", SOURCE, doc, TRUE))
    /\ source_state' = evicted_source_state
    /\ log' = Append(log, Msg("INFO", "State split complete", SOURCE))
    /\ pc' = "done"
    /\ UNCHANGED <<dry_run, splits, dstStore, heap, original_serial, i,
                   module_resources, target_state, all_resources_to_remove,
                   ext, extSrc, moved, fn>>

\* lines 506-511, 110-112: the push of the source fails and push_state raises
EvictAndPushSourceFails ==
    /\ pc = "select" /\ i > Len(splits)
    /\ ~dry_run /\ all_resources_to_remove # <<>>
    /\ events' = Append(events, Event("push", SOURCE,
                                      Serialize(heap, evicted_source_state), FALSE))
    /\ source_state' = evicted_source_state
    /\ log' = Append(log, Msg("ERROR", "Failed to push state", SOURCE))
    /\ pc' = after_push_error(pc)
    /\ UNCHANGED <<dry_run, splits, srcStore, dstStore, heap, original_serial, i,
                   module_resources, target_state, all_resources_to_remove,
                   ext, extSrc, moved, fn>>

\* lines 514-515
DryRunComplete ==
    /\ pc = "select" /\ i > Len(splits)
    /\ dry_run
    /\ log' = Append(log, Msg("INFO", "Dry run complete, no changes made", SOURCE))
    /\ pc' = "done"
    /\ UNCHANGED <<dry_run, splits, srcStore, dstStore, heap, source_state,
                   original_serial, i, module_resources, target_state,
                   all_resources_to_remove, events, ext, extSrc, moved, fn>>

\* line 506: nothing was selected, main returns without a word
NothingToRemove ==
    /\ pc = "select" /\ i > Len(splits)
    /\ ~dry_run /\ all_resources_to_remove = <<>>
    /\ pc' = "done"
    /\ UNCHANGED <<dry_run, splits, srcStore, dstStore, heap, source_state,
                   original_serial, i, module_resources, target_state,
                   all_resources_to_remove, events, log, ext, extSrc, moved, fn>>

\* another actor writes the source store while main runs: a resource of a
\* module no mapping selects is added and the serial advances
ExternalRec(n) == Rec(ModulePath(Str("e")), ToString(n), 9)

ExternalWrite ==
    /\ Running
    /\ ext < MaxExternal
    /\ LET doc == [srcStore EXCEPT !.serial = @ + 1,
                                   !.resources = Append(@, ExternalRec(ext + 1))]
           mine == [extSrc EXCEPT !.serial = @ + 1,
                                  !.resources = Append(@, ExternalRec(ext + 1))]
       IN srcStore' = doc /\ extSrc' = mine
    /\ ext' = ext + 1
    /\ UNCHANGED <<pc, dry_run, splits, dstStore, heap, source_state,
                   original_serial, i, module_resources, target_state,
                   all_resources_to_remove, events, log, moved, fn>>

Next ==
    \/ NoMappings
    \/ PullSource
    \/ PullSourceFails
    \/ SelectMapping
    \/ SkipMapping
    \/ PullTarget
    \/ PullTargetFails
    \/ DryRunReport
    \/ Merge
    \/ PushTarget
    \/ PushTargetFails
    \/ EvictAndPushSource
    \/ EvictAndPushSourceFails
    \/ DryRunComplete
    \/ NothingToRemove
    \/ ExternalWrite

Spec == Init /\ [][Next]_vars

(* ------------------------------------------------------------------ *)
(* Properties of a run                                                 *)
(* ------------------------------------------------------------------ *)

ValueIds(resources) == {get_resource_identifier(resources[k]) : k \in 1..Len(resources)}

Max(a, b) == IF a >= b THEN a ELSE b

IsPush(e) == e.op = "push"
IsRead(e) == e.op \in {"pull", "init"} /\ e.ok
TargetPushed == \E k \in 1..Len(events) :
                    IsPush(events[k]) /\ events[k].ok /\ events[k].store \in Dirs
SourcePushed == \E k \in 1..Len(events) :
                    IsPush(events[k]) /\ events[k].ok /\ events[k].store = SOURCE

\* C1: after a run that moved resources under a prefix change, each of them
\* is in the document its target store holds under the rewritten identifier,
\* and the document pushed to the source holds it neither under the old
\* identifier nor under the rewritten one (unless the source held another
\* resource of that identifier when it was first pulled).
C1_MovedRecordLeavesSource ==
    pc = "done" =>
        \A k \in 1..Len(moved) :
            moved[k].prefixed =>
                /\ moved[k].new \in ValueIds(dstStore[moved[k].dir].resources)
                /\ moved[k].old \notin ValueIds(srcStore.resources)
                /\ (moved[k].new \in ValueIds(srcStore.resources)
                        => moved[k].new \in ValueIds(events[1].resources))

\* C2, as claimed: the serial of every document pushed is greater than every
\* serial seen before in the run on a document pulled, initialized or pushed
\* with the same lineage.
C2_SerialAboveLineage ==
    \A k \in 1..Len(events) :
        IsPush(events[k]) =>
            \A j \in 1..(k - 1) :
                ((IsRead(events[j]) \/ IsPush(events[j]))
                  /\ events[j].lineage = events[k].lineage)
                    => events[k].serial > events[j].serial

\* C2, amended: the serial of every document pushed is greater than the serial
\* of the document most recently pulled from, or initialized for, the same
\* store in the run.
C2_SerialAboveLastRead ==
    \A k \in 1..Len(events) :
        IsPush(events[k]) =>
            LET reads == {j \in 1..(k - 1) :
                             IsRead(events[j]) /\ events[j].store = events[k].store}
            IN /\ reads # {}
               /\ \A j \in reads :
                      (\A h \in reads : h <= j) => events[k].serial > events[j].serial

C2_Witness ==
    /\ pc = "done" /\ SourcePushed
    /\ \E k \in 1..Len(events) : events[k].op = "init"
    /\ \E k \in 1..Len(events) :
           events[k].op = "pull" /\ events[k].ok /\ events[k].store \in Dirs

\* C3: when the source store changed after the first pull, the document main
\* pushes to the source is what the store holds at that time, without the
\* resources whose identifiers were recorded for removal.
C3_SourcePushFromSecondPull ==
    \A k \in 1..Len(events) :
        (IsPush(events[k]) /\ events[k].store = SOURCE /\ ext > 0) =>
            events[k].resources =
                SelectSeq(extSrc.resources,
                          LAMBDA r : get_resource_identifier(r)
                                        \notin Range(all_resources_to_remove))

\* C4: the serial main writes to the source is the greater of the serial of
\* the first pull plus one and the serial the store holds at that time plus one.
C4_SourceSerialIsMax ==
    \A k \in 1..Len(events) :
        (IsPush(events[k]) /\ events[k].store = SOURCE) =>
            events[k].serial = Max(original_serial + 1, extSrc.serial + 1)

\* C7: in a dry run no push is invoked on any store, and the source store
\* holds what it held at the start (but for the writes of other actors).
C7_DryRunNoSideEffects ==
    dry_run =>
        /\ \A k \in 1..Len(events) : ~IsPush(events[k])
        /\ srcStore = extSrc

C7_Witness ==
    /\ dry_run /\ pc = "done" /\ Len(splits) = 2
    /\ \E k \in 1..Len(log) : log[k].text = "DRY RUN: Would move"
    /\ \E k \in 1..Len(events) : events[k].op = "init"

PartialMoveReported ==
    \E k \in 1..Len(log) :
        log[k].level = "ERROR" /\ log[k].text = "Partial move"

\* C10: a run that fails after a target push succeeded reports the partial move.
C10_PartialMoveReported ==
    (pc = "raised" /\ TargetPushed) => PartialMoveReported

\* the mappings main has skipped for want of resources (lines 448-450)
SkippedCount ==
    Cardinality({k \in 1..Len(log) : log[k].text = "No resources found for module"})

\* C11: a run that is not a dry run, was given mappings and found resources
\* for none of them does not end with the exit status of success.
C11_UnresolvableRunFails ==
    (~dry_run /\ splits # <<>> /\ SkippedCount = Len(splits)) => pc # "done"

LastEvent == events[Len(events)]

FailedTargetPull(e) == e.op = "pull" /\ ~e.ok /\ e.store \in Dirs

\* C12: a failed pull of a target does not end the run. It is followed by the
\* initialization of a document with version 4, the source's terraform_version
\* and lineage, serial 0 and no resources; in a run that is not a dry run the
\* resources selected for the mapping are merged into that document, and the
\* next access to a store is its push to the same target with serial 1.
C12_FailedTargetPullInitializes ==
    /\ \A k \in 1..Len(events) :
           FailedTargetPull(events[k]) =>
               /\ k < Len(events)
               /\ events[k + 1].op = "init"
               /\ events[k + 1].store = events[k].store
               /\ events[k + 1].serial = 0
               /\ events[k + 1].lineage = extSrc.lineage
               /\ events[k + 1].resources = <<>>
               /\ (~dry_run /\ k + 2 <= Len(events)) =>
                      /\ IsPush(events[k + 2])
                      /\ events[k + 2].store = events[k].store
                      /\ events[k + 2].serial = 1
    /\ (events # <<>> /\ LastEvent.op = "init") =>
           /\ pc \notin {"raised", "exit1"}
           /\ pc = "merge" =>
                  target_state = [version |-> 4,
                                  terraform_version |-> extSrc.terraform_version,
                                  serial |-> 0, lineage |-> extSrc.lineage,
                                  resources |-> <<>>]
           /\ pc = "push_target" =>
                  /\ target_state.version = 4
                  /\ target_state.terraform_version = extSrc.terraform_version
                  /\ target_state.lineage = extSrc.lineage
                  /\ Range(target_state.resources) \subseteq Range(module_resources)
                  /\ Identifiers(heap, target_state.resources)
                        = Identifiers(heap, module_resources)

\* the pull of the first mapping's target failed, its push with serial 1 was
\* accepted, the second mapping was pushed too and the source was evicted
C12_Witness ==
    /\ pc = "done" /\ SourcePushed /\ Len(events) >= 6
    /\ FailedTargetPull(events[2])
    /\ events[3].op = "init"
    /\ IsPush(events[4]) /\ events[4].ok /\ events[4].serial = 1
    /\ events[4].resources # <<>>
    /\ \E k \in 5..Len(events) :
           IsPush(events[k]) /\ events[k].ok /\ events[k].store \in Dirs

FailedPush(e) == IsPush(e) /\ ~e.ok

\* C13: a push that fails is the last access of the run to any store: it is
\* not attempted again, no pull and no push follows it and the run has ended;
\* after a failed push to a target the source store holds what the other
\* actors alone made of it.
C13_FailedPushIsFinal ==
    \A k \in 1..Len(events) :
        FailedPush(events[k]) =>
            /\ k = Len(events)
            /\ pc = "raised"
            /\ events[k].store \in Dirs => srcStore = extSrc

\* the push of the second mapping fails after the first target was written
C13_Witness ==
    /\ pc = "raised" /\ events # <<>>
    /\ FailedPush(LastEvent) /\ LastEvent.store \in Dirs
    /\ TargetPushed
    /\ all_resources_to_remove # <<>>

\* the push of the source fails
C13_WitnessSource ==
    /\ pc = "raised" /\ events # <<>>
    /\ FailedPush(LastEvent) /\ LastEvent.store = SOURCE

\* mappings as --split gives them: short names, no prefix change (lines 414-425)
ByShortName == \A k \in 1..Len(splits) : splits[k].target_prefix = None

\* the module is module_path itself or a module nested in it
NestedIn(module, module_path) ==
    module = module_path \/ StartsWith(module, module_path \o Dot \o <<"module">> \o Dot)

\* C14: a completed run, not a dry run, whose mappings were given by short
\* name has moved every resource the source held in the module of a mapping
\* or in a module nested in it: the resource is in the document the target
\* store holds and not in the document the source store holds.
C14_ShortNameMovesSubmodules ==
    (pc = "done" /\ ~dry_run /\ ByShortName) =>
        \A k \in 1..Len(splits) :
            \A r \in Range(events[1].resources) :
                NestedIn(r.module, splits[k].module_path) =>
                    /\ get_resource_identifier(r)
                           \in ValueIds(dstStore[splits[k].target_dir].resources)
                    /\ get_resource_identifier(r) \notin ValueIds(srcStore.resources)

\* main is about to look for the resources of a mapping, and source_state
\* holds none in the mapping's module
Unmatched ==
    /\ pc = "select" /\ i <= Len(splits)
    /\ \A o \in Range(source_state.resources) : heap[o].module # mapping.module_path

\* C17: from a state where the next mapping matches no resource of the source,
\* no step pulls or pushes, changes a target store or records an identifier
\* for removal, and the run does not fail; the step main takes leaves it
\* before the next mapping of the list.
C17_UnmatchedMappingSkipped ==
    [][Unmatched =>
          /\ events' = events
          /\ dstStore' = dstStore
          /\ all_resources_to_remove' = all_resources_to_remove
          /\ moved' = moved
          /\ pc' = "select"
          /\ i' \in {i, i + 1}
          /\ (i' = i => log' = log)]_vars

\* the first mapping was skipped, the second was moved and the source pushed
C17_Witness ==
    /\ pc = "done" /\ Len(splits) = 2
    /\ SkippedCount = 1 /\ log[1].text = "No resources found for module"
    /\ TargetPushed /\ SourcePushed
    /\ events[Len(events) - 1].store = splits[2].target_dir

\* the identifiers some store tracks
TrackedIds ==
    ValueIds(srcStore.resources)
        \cup UNION {ValueIds(dstStore[d].resources) : d \in Dirs}

C19_WitnessDone ==
    /\ pc = "done" /\ SourcePushed
    /\ \A d \in Dirs : \E k \in 1..Len(events) :
           IsPush(events[k]) /\ events[k].ok /\ events[k].store = d
    /\ Len(srcStore.resources) < Len(events[1].resources)

\* the objects of the document first pulled that the eviction removed
Evicted == (1..Len(events[1].resources)) \ Range(source_state.resources)

\* C20: after a run that completed with the push of the source, every
\* resource evicted from the source is in the document the store of its
\* target holds, under the identifier it was moved to and with the payload
\* it had in the source.
C20_EvictedPayloadPreserved ==
    (pc = "done" /\ SourcePushed) =>
        \A o \in Evicted :
            \E k \in 1..Len(moved) :
                /\ moved[k].new = get_resource_identifier(heap[o])
                /\ \E r \in Range(dstStore[moved[k].dir].resources) :
                       /\ get_resource_identifier(r) = moved[k].new
                       /\ r.payload = events[1].resources[o].payload

(* ------------------------------------------------------------------ *)
(* Function-level specification: add_resources_to_state called twice   *)
(* with the same arguments, and a document partitioned by              *)
(* find_resources_by_module_path and remove_resources_from_state       *)
(* ------------------------------------------------------------------ *)

FnModules == {mA, mA2, mAB, mBA, mN}
FnRecU == {Rec(m, "x", 1) : m \in FnModules}
FnSourcePrefixes == {None, Some(mA)}
FnTargetPrefixes == {None, Some(<<>>), Some(mN), Some(mA2)}

PartModules == {mRoot, mA, mA2, mAB, mBA}
PartRecU == {Rec(m, "x", 1) : m \in PartModules}
PartPaths == {mRoot, mA, mAB}

FnState(resources) ==
    [version |-> 4, terraform_version |-> "1.5.0", serial |-> 3,
     lineage |-> DstLineage, resources |-> resources]

\* the state and the list are built as json.loads builds them: every resource
\* is an object of its own; the state may also be missing (None)
MergeInputs ==
    {[op |-> "merge", calls |-> 0,
      heap |-> d \o a,
      state |-> IF none THEN Absent ELSE FnState([k \in 1..Len(d) |-> k]),
      resources_to_add |-> [k \in 1..Len(a) |-> Len(d) + k],
      source_prefix |-> sp, target_prefix |-> tp,
      heap_before |-> d \o a,
      state_before |-> Absent,
      first |-> [ids |-> {}, n |-> 0]] :
        d \in {x \in SeqsUpTo(FnRecU, MaxFnLen) : UniqueAddresses(x)},
        a \in SeqsUpTo(FnRecU, MaxFnLen),
        none \in BOOLEAN,
        sp \in FnSourcePrefixes, tp \in FnTargetPrefixes}

PartitionInputs ==
    {[op |-> "partition", done |-> FALSE,
      heap |-> rs,
      resources |-> [k \in 1..Len(rs) |-> k],
      module_path |-> path, exclude_submodules |-> ex,
      selected |-> <<>>, remaining |-> <<>>] :
        rs \in SeqsUpTo(PartRecU, MaxFnLen), path \in PartPaths, ex \in BOOLEAN}

FnModuleNames == {<<>>, Str("a")}

FindInputs ==
    {[op |-> "find", done |-> FALSE, heap |-> rs,
      resources |-> [k \in 1..Len(rs) |-> k],
      module_name |-> name, selected |-> <<>>] :
        rs \in SeqsUpTo(PartRecU, MaxFnLen), name \in FnModuleNames}

IdentifyInputs ==
    {[op |-> "identify", done |-> FALSE, resources |-> rs, modules |-> <<>>] :
        rs \in {x \in SeqsUpTo(PartRecU, MaxFnLen) : UniqueAddresses(x)}}

FnInit ==
    /\ pc = "fn"
    /\ dry_run = FALSE
    /\ srcStore = Absent
    /\ dstStore = [d \in Dirs |-> Absent]
    /\ splits = <<>>
    /\ heap = <<>>
    /\ source_state = Absent
    /\ original_serial = 0
    /\ i = 0
    /\ module_resources = <<>>
    /\ target_state = Absent
    /\ all_resources_to_remove = <<>>
    /\ events = <<>>
    /\ log = <<>>
    /\ ext = 0
    /\ extSrc = Absent
    /\ moved = <<>>
    /\ fn \in {x \in MergeInputs : x.state = Absent => Len(x.heap) = Len(x.resources_to_add)}
               \cup PartitionInputs \cup IdentifyInputs \cup FindInputs

MainIdle ==
    UNCHANGED <<pc, dry_run, splits, srcStore, dstStore, heap, source_state,
                original_serial, i, module_resources, target_state,
                all_resources_to_remove, events, log, ext, extSrc, moved>>

FnCall ==
    LET r == add_resources_to_state(fn.heap, fn.state, fn.resources_to_add,
                                    fn.source_prefix, fn.target_prefix)
    IN [fn EXCEPT !.heap = r.heap, !.state = r.state, !.calls = @ + 1,
                  !.heap_before = fn.heap, !.state_before = fn.state,
                  !.first = IF fn.calls = 0
                            THEN [ids |-> Identifiers(r.heap, r.state.resources),
                                  n |-> Len(r.state.resources)]
                            ELSE @]

\* state = add_resources_to_state(state, resources_to_add, source_prefix, target_prefix)
AddResources ==
    /\ fn.op = "merge" /\ fn.calls = 0
    /\ fn' = FnCall
    /\ MainIdle

\* the same call once more, with the state returned and the same list
AddResourcesAgain ==
    /\ fn.op = "merge" /\ fn.calls = 1
    /\ fn' = FnCall
    /\ MainIdle

\* the resources of a module path are selected, and removed by their identifiers
Partition ==
    /\ fn.op = "partition" /\ ~fn.done
    /\ LET selected == find_resources_by_module_path(fn.heap, fn.resources,
                           fn.module_path, fn.exclude_submodules)
           ids == [k \in 1..Len(selected) |-> get_resource_identifier(fn.heap[selected[k]])]
       IN fn' = [fn EXCEPT !.done = TRUE, !.selected = selected,
                           !.remaining = remove_resources_from_state(fn.heap, fn.resources, ids)]
    /\ MainIdle

\* modules, module_resources = identify_modules(state)
Identify ==
    /\ fn.op = "identify" /\ ~fn.done
    /\ fn' = [fn EXCEPT !.done = TRUE, !.modules = identify_modules(fn.resources)]
    /\ MainIdle

\* resources = find_module_resources(state, module_name)
FindModule ==
    /\ fn.op = "find" /\ ~fn.done
    /\ fn' = [fn EXCEPT !.done = TRUE,
                        !.selected = find_module_resources(fn.heap, fn.resources,
                                                           fn.module_name)]
    /\ MainIdle

FnNext == AddResources \/ AddResourcesAgain \/ Partition \/ Identify \/ FindModule

SpecFn == FnInit /\ [][FnNext]_vars

(* ------------------------------------------------------------------ *)
(* Properties of the functions                                         *)
(* ------------------------------------------------------------------ *)

UniqueRefs(h, refs) ==
    \A a, b \in 1..Len(refs) :
        get_resource_identifier(h[refs[a]]) = get_resource_identifier(h[refs[b]])
            => a = b

\* C5: a second call of add_resources_to_state with the same list and the same
\* prefixes leaves the state with the same set of identifiers and the same
\* number of resources as the first call left it.
C5_MergeIdempotent ==
    (fn.op = "merge" /\ fn.calls = 2) =>
        /\ Identifiers(fn.heap, fn.state.resources) = fn.first.ids
        /\ Len(fn.state.resources) = fn.first.n

\* C6: when no two resources of the state share an identifier before a call
\* of add_resources_to_state, no two share one after it.
C6_MergeKeepsAddressesUnique ==
    (fn.op = "merge" /\ fn.calls >= 1
        /\ UniqueRefs(fn.heap_before, fn.state_before.resources))
        => UniqueRefs(fn.heap, fn.state.resources)

\* C8: under both policies every resource of the document is either selected
\* or left by the removal of the selected identifiers, never both, and nothing
\* else is in either list.
C8_LosslessPartition ==
    (fn.op = "partition" /\ fn.done) =>
        /\ \A o \in Range(fn.resources) :
               (o \in Range(fn.selected)) # (o \in Range(fn.remaining))
        /\ Range(fn.selected) \cup Range(fn.remaining) = Range(fn.resources)
        /\ Injective(fn.selected) /\ Injective(fn.remaining)
        /\ Len(fn.selected) + Len(fn.remaining) = Len(fn.resources)

C8_Witness ==
    /\ fn.op = "partition" /\ fn.done /\ ~fn.exclude_submodules
    /\ fn.remaining # <<>>
    /\ \E k \in 1..Len(fn.selected) : fn.heap[fn.selected[k]].module # fn.module_path

\* C9: a call of add_resources_to_state changes the module of a resource of
\* the list only when both prefixes are given (and not empty) and the module
\* starts with source_prefix; the module is then target_prefix followed by
\* what followed source_prefix.
C9_RewritePrefixAnchored ==
    (fn.op = "merge" /\ fn.calls >= 1) =>
        \A k \in 1..Len(fn.resources_to_add) :
            LET before == fn.heap_before[fn.resources_to_add[k]].module
                after == fn.heap[fn.resources_to_add[k]].module
                sp == fn.source_prefix
                tp == fn.target_prefix
            IN IF sp.present /\ tp.present /\ sp.val # <<>> /\ tp.val # <<>>
                  /\ Len(sp.val) <= Len(before)
                  /\ SubSeq(before, 1, Len(sp.val)) = sp.val
               THEN after = tp.val \o SubSeq(before, Len(sp.val) + 1, Len(before))
               ELSE after = before

C9_Witness ==
    /\ fn.op = "merge" /\ fn.calls = 1
    /\ fn.source_prefix = Some(mA) /\ fn.target_prefix = Some(mN)
    /\ \E k \in 1..Len(fn.resources_to_add) :
           /\ fn.heap_before[fn.resources_to_add[k]].module = mAB
           /\ fn.heap[fn.resources_to_add[k]].module = mN \o Dot \o ModulePath(Str("b"))
    /\ \E k \in 1..Len(fn.resources_to_add) :
           /\ fn.heap_before[fn.resources_to_add[k]].module = mBA
           /\ fn.heap[fn.resources_to_add[k]].module = mBA

\* C15: every entry identify_modules returns holds as its count the number of
\* resources whose module is the entry's full_path itself; the count is never
\* negative, and every module path of the document has an entry of count 1 or more.
C15_CountIsDirectCount ==
    (fn.op = "identify" /\ fn.done) =>
        /\ \A name \in DOMAIN fn.modules :
               /\ fn.modules[name].count
                     = direct_count(fn.resources, fn.modules[name].full_path)
               /\ fn.modules[name].count >= 0
        /\ \A path \in all_module_paths(fn.resources) :
               \E name \in DOMAIN fn.modules :
                   fn.modules[name].full_path = path /\ fn.modules[name].count >= 1

\* C16: for the empty module path the selection that matches the module
\* exactly returns the resources whose module is empty and no other, and the
\* selection that matches a prefix does not return the whole document when
\* the document holds a resource of a module.
C16_RootPathSelection ==
    (fn.op = "partition" /\ fn.done /\ fn.module_path = mRoot) =>
        /\ fn.exclude_submodules =>
               fn.selected = SelectSeq(fn.resources, LAMBDA o : fn.heap[o].module = <<>>)
        /\ (~fn.exclude_submodules
              /\ \E o \in Range(fn.resources) : fn.heap[o].module # <<>>)
               => Range(fn.selected) # Range(fn.resources)

\* position of reference o in the list refs
PosIn(refs, o) == CHOOSE k \in 1..Len(refs) : refs[k] = o

\* C18: a call of add_resources_to_state leaves the resources the state held
\* where they were and as they were, and what it adds follows them, in the
\* order of the list it was given.
C18_MergeFrameAndOrder ==
    (fn.op = "merge" /\ fn.calls >= 1) =>
        LET old == fn.state_before.resources
            new == fn.state.resources
            added == SubSeq(new, Len(old) + 1, Len(new))
        IN /\ Len(old) <= Len(new)
           /\ SubSeq(new, 1, Len(old)) = old
           /\ \A o \in Range(old) : fn.heap[o] = fn.heap_before[o]
           /\ Range(added) \subseteq Range(fn.resources_to_add)
           /\ \A a, b \in 1..Len(added) :
                  a < b => PosIn(fn.resources_to_add, added[a])
                              < PosIn(fn.resources_to_add, added[b])

\* C21: the selection by prefix, by either function and for a module path
\* that is not empty, returns only resources whose module is the path itself
\* or a module nested in it (the path followed by ".module."); a resource of
\* module.a2 is not returned for module.a.
C21_PrefixMatchRespectsNesting ==
    /\ (fn.op = "partition" /\ fn.done /\ ~fn.exclude_submodules
          /\ fn.module_path # mRoot) =>
           \A o \in Range(fn.selected) : NestedIn(fn.heap[o].module, fn.module_path)
    /\ (fn.op = "find" /\ fn.done /\ fn.module_name # <<>>) =>
           \A o \in Range(fn.selected) :
               NestedIn(fn.heap[o].module, ModulePath(fn.module_name))

====
